---- MODULE Spec2Model ----
(***************************************************************************)
(* State-machine model of the client-side scripts of the site:             *)
(*   - the page-transition controller (src/unnamed/part_000, 774-1112),    *)
(*   - the timeline accordion (src/assets/js/timeline.js),                 *)
(*   - the smooth-scroll click listener and the scroll-reveal observer     *)
(*     (src/assets/js/common.js),                                          *)
(*   - the particle background (src/unnamed/part_000, 7-767),              *)
(*   - the cursor glow (src/assets/js/cursor-glow.js).                     *)
(* The browser is the environment: it dispatches click and popstate       *)
(* events, fires timers, settles fetches and commits full navigations.     *)
(* Everything runs on the single UI thread, so every handler and every     *)
(* timer or promise callback is one atomic action.                         *)
(*                                                                         *)
(* Document abstraction: the document is its title and the three regions   *)
(* the controller splices (main, header, nav); a region is absent (None)   *)
(* or holds the markup of one page.  Timeline items live in the main       *)
(* region and every item has a header.                                     *)
(***************************************************************************)
EXTENDS Integers, Sequences, FiniteSets, TLC

\* ---------------------------------------------------------------- bounds
\* Same-document session-history entries kept (browsers cap the list and
\* drop the oldest entry).
MaxHist == 2
\* Timeline items of a page that has a timeline.
NumItems == 2
\* Cap on the click listeners reinitializeScripts may stack on one header.
MaxListeners == 2
\* Cap on the scroll-into-view timers of the timeline pending at once.
MaxScrollTimers == 1
\* Milliseconds by which the clock advances in one step while a timer of
\* the particle background is pending.
TimeStep == 125

\* ------------------------------------------------------- program constants
transitionDuration == 400
enterDelay == 100
cleanupDelay == 500
\* config of the particle background (part_000:65-83) and the margin beyond
\* which updateStars respawns a star.
distantStarCount == 200
midStarCount == 200
nearStarCount == 100
nebulaCount == 8
clusterCount == 4
dustCount == 80
shootingStarCount == 8
starMargin == 10
\* The delay of the debounce timer of resizeCanvas.
resizeDelay == 250
\* config.smoothing of the cursor glow, in hundredths.
smoothing == 15
\* ------------------------------------------------------------ value sets
None == "none"
External == "ext"
SiteHost == "site"
URLs == {"/a", "/b"}
\* A page is the document served for a URL, or the body of an error response.
ErrorPage == "err"
Pages == URLs \cup {ErrorPage}
Items == 1..NumItems

VARIABLES
  isTransitioning,  \* part_000:777
  tasks,            \* pending timers and fetches of the controller
  history,          \* same-document session history (URLs)
  hidx,             \* index of the current entry; window.location = history[hidx]
  pendingNav,       \* full navigation requested of the browser, not yet committed
  loaded,           \* FALSE once the browser has left the site
  doc,              \* title and regions of the current document
  ui,               \* overlay / main / body classes the controller toggles
  tl,               \* timeline items, their active class and click listeners
  ev,               \* the event dispatched last (link click, popstate, header click)
  thrown,           \* uncaught errors raised in this document so far
  ps,               \* the particle background (part_000:10-17 and its canvas)
  sa,               \* the scroll-reveal elements and their observers
  cg                \* the cursor glow

vars == <<isTransitioning, tasks, history, hidx, pendingNav, loaded, doc, ui, tl, ev,
          thrown, ps, sa, cg>>

\* The state of the page-transition controller and of the document.
controller == <<isTransitioning, tasks, history, hidx, pendingNav, loaded, doc, ui, tl>>

Location == history[hidx]

\* The event dispatched last: its type, for a click the kind of the anchor's
\* href, for a header click the item, and the event's defaultPrevented flag.
Event(type, kind, item, prevented) ==
  [type |-> type, kind |-> kind, item |-> item, defaultPrevented |-> prevented]
NoEvent == Event("none", None, 0, FALSE)
NoNav == [kind |-> None, url |-> None]
NoTimeline ==
  [items |-> {}, active |-> {}, h1 |-> FALSE, h2 |-> 0, container |-> FALSE,
   timers |-> <<>>]

\* ------------------------------------------------------------------ links
\* An anchor element, by what handleLinkClick and the smooth-scroll listener
\* read of it: the kind of its href, where a path href leads, its target and
\* download attributes, and for a fragment href whether it is the bare "#",
\* names an element that exists, or names none; smooth tells whether the
\* listener of initSmoothScroll is attached to it.
PathLinks ==
  {l \in [kind : {"path"}, url : URLs \cup {External}, blank : BOOLEAN,
          download : BOOLEAN, frag : {None}, smooth : {FALSE}] :
     (l.blank \/ l.download) => l.url = "/a"}
FragmentLinks ==
  {l \in [kind : {"fragment"}, url : {None}, blank : {FALSE}, download : {FALSE},
          frag : {"bare", "target", "missing"}, smooth : BOOLEAN] :
     ~l.smooth => l.frag = "target"}
OtherLinks ==
  [kind : {"mailto", "tel", "nohref"}, url : {None}, blank : {FALSE},
   download : {FALSE}, frag : {None}, smooth : {FALSE}]
Links == PathLinks \cup FragmentLinks \cup OtherLinks

\* link.hostname as the browser resolves it: a path href has the host it
\* names, a fragment href resolves against the current document, and
\* mailto:, tel: and a missing href have the empty hostname.
Hostname(l) ==
  CASE l.kind = "path" -> IF l.url \in URLs THEN SiteHost ELSE "other"
    [] l.kind = "fragment" -> SiteHost
    [] OTHER -> ""

\* The skip condition without its test of the flag.
SkipLinkNoFlag(l) ==
  \/ l.kind = "nohref"
  \/ Hostname(l) # SiteHost
  \/ l.kind = "fragment"
  \/ l.kind = "mailto"
  \/ l.kind = "tel"
  \/ l.blank
  \/ l.download

\* The skip condition without its test of the download attribute.
SkipLinkNoDownload(l) ==
  \/ l.kind = "nohref"
  \/ Hostname(l) # SiteHost
  \/ l.kind = "fragment"
  \/ l.kind = "mailto"
  \/ l.kind = "tel"
  \/ l.blank
  \/ isTransitioning

\* The skip condition of handleLinkClick.
SkipLink(l) ==
  \/ l.kind = "nohref"
  \/ Hostname(l) # SiteHost
  \/ l.kind = "fragment"
  \/ l.kind = "mailto"
  \/ l.kind = "tel"
  \/ l.blank
  \/ l.download
  \/ isTransitioning

\* The click listener initSmoothScroll attaches to a[href^="#"]: it calls
\* preventDefault for the bare "#" and for a fragment whose target exists.
SmoothScrollPrevents(l) ==
  /\ l.kind = "fragment"
  /\ l.smooth
  /\ l.frag \in {"bare", "target"}

\* Session history after an entry for u is added at position i: the entries
\* after i are dropped, and the oldest one when the list is full.
PushEntry(h, i, u) ==
  LET t == Append(SubSeq(h, 1, i), u)
  IN IF Len(t) > MaxHist THEN Tail(t) ELSE t

Task(kind, path, url, delay) ==
  [kind |-> kind, path |-> path, url |-> url, delay |-> delay]

RemoveAt(s, i) == SubSeq(s, 1, i - 1) \o SubSeq(s, i + 1, Len(s))

\* navigateTo and the first half of handlePopState: mark the transition,
\* apply the exiting state, and arm the timer that issues the fetch.
BeginTransition(path, url) ==
  /\ isTransitioning' = TRUE
  /\ ui' = [ui EXCEPT
        !.body = (@ \cup {"transitioning"}) \ {"page-loaded"},
        !.mainClass = IF doc.main # None THEN @ \cup {"fade-out"} ELSE @,
        !.overlay = TRUE]
  /\ tasks' = Append(tasks, Task("exitTimer", path, url, transitionDuration))

navigateTo(url) ==
  IF isTransitioning
  THEN UNCHANGED <<isTransitioning, ui, tasks>>
  ELSE BeginTransition("click", url)

\* What the browser does with a click whose default was not prevented.
DefaultAction(l) ==
  CASE l.kind = "path" /\ ~l.blank /\ ~l.download ->
         /\ pendingNav' = [kind |-> "default", url |-> l.url]
         /\ UNCHANGED <<history, hidx>>
    [] l.kind = "fragment" ->
         /\ history' = PushEntry(history, hidx, Location)
         /\ hidx' = Len(history')
         /\ UNCHANGED pendingNav
    [] OTHER -> UNCHANGED <<pendingNav, history, hidx>>

\* A click on an anchor: the anchor's own smooth-scroll listener runs first,
\* then handleLinkClick on the document, then the browser's default action.
\* A fragment link without the smooth-scroll listener can only be one that a
\* splice brought in after initSmoothScroll ran.
Click(l) ==
  /\ loaded
  /\ (l.kind = "fragment" /\ ~l.smooth) => doc.spliced
  /\ LET intercept == ~SkipLink(l)
         prevented == SmoothScrollPrevents(l) \/ intercept
     IN /\ ev' = Event("click", l.kind, 0, prevented)
        /\ IF intercept
           THEN /\ navigateTo(l.url)
                /\ UNCHANGED <<pendingNav, history, hidx>>
           ELSE /\ UNCHANGED <<isTransitioning, ui, tasks>>
                /\ IF prevented
                   THEN UNCHANGED <<pendingNav, history, hidx>>
                   ELSE DefaultAction(l)
        /\ UNCHANGED <<loaded, doc, tl, thrown, ps, sa, cg>>

\* handlePopState without its guard on the flag.
PopStateNoGuard(j) ==
  /\ loaded
  /\ j \in 1..Len(history)
  /\ j # hidx
  /\ hidx' = j
  /\ ev' = Event("pop", None, 0, FALSE)
  /\ BeginTransition("pop", history[j])
  /\ UNCHANGED <<history, pendingNav, loaded, doc, tl, thrown, ps, sa, cg>>

\* The browser traverses to another same-document history entry j and fires
\* popstate; handlePopState reads window.location.href after the traversal.
PopState(j) ==
  /\ loaded
  /\ j \in 1..Len(history)
  /\ j # hidx
  /\ hidx' = j
  /\ ev' = Event("pop", None, 0, FALSE)
  /\ IF isTransitioning
     THEN UNCHANGED <<isTransitioning, ui, tasks>>
     ELSE BeginTransition("pop", history[j])
  /\ UNCHANGED <<history, pendingNav, loaded, doc, tl, thrown, ps, sa, cg>>

\* The 400 ms timer of navigateTo / handlePopState fires: the fetch is issued.
ExitTimer(i) ==
  /\ loaded
  /\ i \in 1..Len(tasks)
  /\ tasks[i].kind = "exitTimer"
  /\ tasks' = Append(RemoveAt(tasks, i), Task("fetch", tasks[i].path, tasks[i].url, 0))
  /\ ev' = NoEvent
  /\ UNCHANGED <<isTransitioning, history, hidx, pendingNav, loaded, doc, ui, tl,
               thrown, ps, sa, cg>>

\* ------------------------------------------------------ particle background
\* The particle background on an integer pixel grid.  The four particle
\* arrays are followed through their lengths, the canvas extent each was
\* generated for, and one particle p of one array: the code treats every
\* element of an array alike and no particle reads another, so what holds
\* of p whatever array and whatever draws it comes from holds of every
\* particle.  The code handles x against canvas.width and y against
\* canvas.height by the same statements, so p is followed along one axis:
\* c is its coordinate, v its velocity and the extent n of the canvas is
\* the width for x and the height for y.  A star that leaves along the
\* other axis is respawned within [0, n) along this one, where createStars
\* puts it too.  p keeps the index (slot) it has in its array, and a star
\* the layer of the loop that pushed it.  The debounce timer of
\* resizeCanvas carries the time left until it is due, and quiet is the
\* time since the last call of resizeCanvas, both in milliseconds.  A star or
\* a dust particle moves at most one pixel per frame; a nebula or a
\* cluster, whose respawn margin is twice its size, is followed only
\* through the zone it is in: inside the canvas, within the 10 px margin
\* around it, or beyond.  Math.random() is a choice over the grid points
\* it can produce.  The two cosmetic timers of forceBackdropFilterRefresh
\* and the drawing calls keep no state and are left out.
Kinds == {"star", "dust", "nebula", "cluster"}
Zones == {"inside", "margin", "beyond"}
ParticleListeners == {"resize", "visibilitychange", "pageshow"}

\* Math.random() * n on the grid: a point of [0, n).
Rand(n) == IF n > 0 THEN 0..(n - 1) ELSE {0}

\* A velocity component (d / distance) * speed: never towards the centre,
\* zero at the centre, below one pixel per frame.
Away(x, n) ==
  IF 2 * x > n THEN {0, 1} ELSE IF 2 * x < n THEN {-1, 0} ELSE {0}

Particle(kind, c, v, zone) ==
  [kind |-> kind, c |-> c, v |-> v, zone |-> zone, slot |-> 0, layer |-> None]
NoParticle == Particle(None, 0, 0, None)

\* The particles the create functions can put into the slot of p on a
\* canvas of extent n.
Spawn(kind, n) ==
  CASE kind = "star" ->
         {q \in {Particle("star", c, v, None) : c \in Rand(n), v \in {-1, 0, 1}} :
            q.v \in Away(q.c, n)}
    [] kind = "dust" ->
         {Particle("dust", c, v, None) : c \in Rand(n), v \in {-1, 0, 1}}
    [] OTHER -> {Particle(kind, 0, 0, "inside")}

\* The layer of the star createStars pushes at index slot: the three loops
\* push the distant stars, then the mid stars, then the near stars.
LayerOf(kind, slot) ==
  IF kind # "star" THEN None
  ELSE IF slot < distantStarCount THEN "distant"
  ELSE IF slot < distantStarCount + midStarCount THEN "mid"
  ELSE "near"

\* The indices followed: the first star of each layer, the first element
\* of each other array.
Slots(kind) ==
  IF kind = "star" THEN {0, distantStarCount, distantStarCount + midStarCount} ELSE {0}

\* What the create functions can push at index slot of the array of kind.
Created(kind, n, slot) ==
  {[q EXCEPT !.slot = slot, !.layer = LayerOf(kind, slot)] : q \in Spawn(kind, n)}

\* The coordinate of p lies within [-10, n+10].
InBox(p, n) ==
  IF p.kind \in {"star", "dust"}
  THEN -starMargin <= p.c /\ p.c <= n + starMargin
  ELSE p.zone \in {"inside", "margin"}

\* The coordinate of p lies within [0, n].
InCanvas(p, n) ==
  IF p.kind \in {"star", "dust"}
  THEN 0 <= p.c /\ p.c <= n
  ELSE p.zone = "inside"

ConfigCounts ==
  [stars |-> distantStarCount + midStarCount + nearStarCount,
   nebulas |-> nebulaCount, clusters |-> clusterCount, dust |-> dustCount]
NoCounts == [stars |-> 0, nebulas |-> 0, clusters |-> 0, dust |-> 0]
AllFor(d) == [stars |-> d, nebulas |-> d, clusters |-> d, dust |-> d]
ShootingStars ==
  [containers |-> 1, stars |-> shootingStarCount, styles |-> shootingStarCount]

\* The callbacks requestAnimationFrame holds for animate: whether the one
\* animationId names is still scheduled, and how many others are.
NoLoop == [idLive |-> FALSE, others |-> 0]
Schedule(loop) ==
  [idLive |-> TRUE, others |-> loop.others + (IF loop.idLive THEN 1 ELSE 0)]
Cancel(loop) == [loop EXCEPT !.idLive = FALSE]
Scheduled(loop) == loop.others + (IF loop.idLive THEN 1 ELSE 0)

NoParticles ==
  [installed |-> FALSE, win |-> 0, attached |-> FALSE,
   canvas |-> 0, counts |-> NoCounts, gen |-> AllFor(0),
   p |-> NoParticle, loop |-> NoLoop, resizeTimeout |-> FALSE,
   due |-> 0, quiet |-> 0,
   listeners |-> {}, shooting |-> [containers |-> 0, stars |-> 0, styles |-> 0]]

\* createStars with createSpaceDust left out.
createStarsNoDust(s, q) ==
  [s EXCEPT !.counts = [ConfigCounts EXCEPT !.dust = s.counts.dust],
            !.gen = [AllFor(s.canvas) EXCEPT !.dust = s.gen.dust],
            !.p = IF s.p.kind = "dust" THEN s.p ELSE q]

\* createStars and the functions it calls pushing onto the arrays as they
\* are, without emptying them first.
createStarsAppending(s, q) ==
  [s EXCEPT !.counts = [k \in DOMAIN ConfigCounts |-> @[k] + ConfigCounts[k]],
            !.gen = AllFor(s.canvas), !.p = q]

\* createStars, which ends by calling createNebulas, createClusters and
\* createSpaceDust: each of the four arrays is emptied and filled again
\* for the canvas as it is, and q is the particle pushed at the slot of p.
createStars(s, q) ==
  [s EXCEPT !.counts = ConfigCounts, !.gen = AllFor(s.canvas), !.p = q]

\* One dust coordinate after the drift, wrapped as updateSpaceDust wraps
\* it: a negative one becomes n, then one above n becomes 0.
Wrap(x, n) ==
  LET a == IF x < 0 THEN n ELSE x
  IN IF a > n THEN 0 ELSE a

\* updateStars on one star: drift, then respawn inside the canvas when it
\* has left [-10, n+10].
updateStars(p, n) ==
  LET c == p.c + p.v
  IN IF c < -starMargin \/ c > n + starMargin
     THEN {[q EXCEPT !.slot = p.slot, !.layer = p.layer] : q \in Spawn("star", n)}
     ELSE {[p EXCEPT !.c = c]}

\* updateSpaceDust without the wrap at the right and bottom edges.
updateSpaceDustNoWrap(p, n) ==
  {[p EXCEPT !.c = IF p.c + p.v < 0 THEN n ELSE p.c + p.v]}

\* updateSpaceDust on one dust particle.
updateSpaceDust(p, n) == {[p EXCEPT !.c = Wrap(p.c + p.v, n)]}

\* updateNebulas / updateClusters on one particle: it drifts by less than
\* a pixel, and once beyond twice its size it respawns inside the canvas.
updateCloud(p) ==
  {[p EXCEPT !.zone = z] :
     z \in IF p.zone = "inside" THEN {"inside", "margin"} ELSE Zones}

\* The update half of animate on the particle p.
Update(p, n) ==
  CASE p.kind = "star" -> updateStars(p, n)
    [] p.kind = "dust" -> updateSpaceDust(p, n)
    [] OTHER -> updateCloud(p)

\* animate: update, draw, and schedule the next callback; q is p after the
\* update.
animate(s, q) == [s EXCEPT !.p = q, !.loop = Schedule(@)]

\* resizeCanvas leaving a pending timer to run instead of clearing it and
\* arming a new one.
resizeCanvasNoClear(s, z) ==
  [s EXCEPT !.canvas = s.win,
            !.resizeTimeout = TRUE,
            !.due = IF s.resizeTimeout THEN @ ELSE resizeDelay,
            !.quiet = 0,
            !.p = IF s.p.kind \in {"nebula", "cluster"} /\ s.win # s.canvas
                  THEN [@ EXCEPT !.zone = z] ELSE @]

\* resizeCanvas: the canvas takes the window's size and the debounce timer
\* is cleared and armed again, due in 250 ms; quiet is the time since the
\* last call.  z is the zone a nebula or cluster is in with respect to the
\* new size.
resizeCanvas(s, z) ==
  [s EXCEPT !.canvas = s.win,
            !.resizeTimeout = TRUE,
            !.due = resizeDelay,
            !.quiet = 0,
            !.p = IF s.p.kind \in {"nebula", "cluster"} /\ s.win # s.canvas
                  THEN [@ EXCEPT !.zone = z] ELSE @]

\* createCSSShootingStars leaving the style elements of earlier calls in
\* the head.
createCSSShootingStarsKeepStyles(sh) ==
  [containers |-> (IF sh.containers > 0 THEN sh.containers - 1 ELSE 0) + 1,
   stars |-> (IF sh.containers > 0 THEN sh.stars - shootingStarCount ELSE sh.stars)
             + shootingStarCount,
   styles |-> sh.styles + shootingStarCount]

\* createCSSShootingStars: the first container found is removed with its
\* stars, every style element marked data-shooting-star is removed, then
\* a container with shootingStarCount stars is appended to the body and
\* one style element per star to the head.
createCSSShootingStars(sh) ==
  [containers |-> (IF sh.containers > 0 THEN sh.containers - 1 ELSE 0) + 1,
   stars |-> (IF sh.containers > 0 THEN sh.stars - shootingStarCount ELSE sh.stars)
             + shootingStarCount,
   styles |-> shootingStarCount]

\* reinitialize without the cancelAnimationFrame at its start.
reinitializeNoCancel(s, q, r) ==
  [animate(createStars([s EXCEPT !.canvas = s.win], q), r)
     EXCEPT !.shooting = createCSSShootingStars(@)]

\* reinitialize: cancel the callback animationId names, size the canvas,
\* rebuild the arrays (q drawn for the slot of p), run animate (r is q
\* after its update) and rebuild the shooting stars.
reinitialize(s, q, r) ==
  [animate(createStars([s EXCEPT !.canvas = s.win, !.loop = Cancel(@)], q), r)
     EXCEPT !.shooting = createCSSShootingStars(@)]

\* init of the particle background: the canvas is created at the window's
\* size and prepended to the body, the arrays are built, the three
\* listeners registered and the loop started.  No call of resizeCanvas has
\* been made yet: quiet is at its cap.
ParticleInit(win, q, r) ==
  [animate(createStars([NoParticles EXCEPT !.installed = TRUE, !.win = win,
                                           !.attached = TRUE, !.canvas = win], q), r)
     EXCEPT !.listeners = ParticleListeners,
            !.shooting = createCSSShootingStars(@),
            !.quiet = resizeDelay]

\* What a handler of the particle background leaves alone.
ParticleFrame(type) ==
  /\ ev' = Event(type, None, 0, FALSE)
  /\ UNCHANGED <<controller, sa, cg>>

\* The callback of requestAnimationFrame runs animate: either the callback
\* animationId names, or another one still scheduled.
AnimationFrame(live) ==
  /\ loaded
  /\ ps.installed
  /\ IF live THEN ps.loop.idLive ELSE ps.loop.others > 0
  /\ \E q \in Update(ps.p, ps.canvas) :
       ps' = animate([ps EXCEPT !.loop = IF live THEN Cancel(@)
                                         ELSE [@ EXCEPT !.others = @ - 1]], q)
  /\ ParticleFrame("frame")
  /\ UNCHANGED thrown

\* The viewport takes the size v and the resize event is dispatched.
Resize(v) ==
  /\ loaded
  /\ ps.installed
  /\ v # ps.win
  /\ LET s == [ps EXCEPT !.win = v]
     IN IF "resize" \in ps.listeners
        THEN \E z \in Zones : ps' = resizeCanvas(s, z)
        ELSE ps' = s
  /\ ParticleFrame("resize")
  /\ UNCHANGED thrown

\* Time passes while the debounce timer is pending, up to the moment it
\* is due.
Elapse ==
  /\ loaded
  /\ ps.installed
  /\ ps.resizeTimeout
  /\ ps.due > 0
  /\ ps' = [ps EXCEPT
        !.due = IF @ > TimeStep THEN @ - TimeStep ELSE 0,
        !.quiet = IF @ + TimeStep < resizeDelay THEN @ + TimeStep ELSE resizeDelay]
  /\ ParticleFrame("elapse")
  /\ UNCHANGED thrown

\* The debounce timer of resizeCanvas is due and fires: createStars.
ResizeTimer ==
  /\ loaded
  /\ ps.installed
  /\ ps.resizeTimeout
  /\ ps.due = 0
  /\ \E q \in Created(ps.p.kind, ps.canvas, ps.p.slot) :
       ps' = [createStars(ps, q) EXCEPT !.resizeTimeout = FALSE]
  /\ ParticleFrame("resizeTimer")
  /\ UNCHANGED thrown

\* handleVisibilityChange.
VisibilityChange(visible) ==
  /\ loaded
  /\ ps.installed
  /\ IF "visibilitychange" \in ps.listeners /\ visible
     THEN \E z \in Zones : ps' = resizeCanvas(ps, z)
     ELSE UNCHANGED ps
  /\ ParticleFrame("visibilitychange")
  /\ UNCHANGED thrown

\* ParticleSystem.reinit, and handlePageShow for a page restored from the
\* back/forward cache.
Reinit ==
  \E q \in Created(ps.p.kind, ps.win, ps.p.slot) :
    \E r \in Update(q, ps.win) : ps' = reinitialize(ps, q, r)

\* handlePageShow.
PageShow(persisted) ==
  /\ loaded
  /\ ps.installed
  /\ IF "pageshow" \in ps.listeners
     THEN IF persisted THEN Reinit ELSE \E z \in Zones : ps' = resizeCanvas(ps, z)
     ELSE UNCHANGED ps
  /\ ParticleFrame(IF persisted THEN "pageshowCached" ELSE "pageshow")
  /\ UNCHANGED thrown

\* ParticleSystem.destroy: the callback animationId names is cancelled;
\* the next statement reads shootingStarIntervalId, which no script
\* declares, so a ReferenceError is raised there and the statements after
\* it (clearTimeout, the three removeEventListener calls, the removal of
\* the canvas) do not run.
destroy(s) == [s EXCEPT !.loop = Cancel(@)]

Destroy ==
  /\ loaded
  /\ ps.installed
  /\ ps' = destroy(ps)
  /\ thrown' = thrown \cup {"ReferenceError"}
  /\ ParticleFrame("destroy")

\* ParticleSystem.respawn.
Respawn ==
  /\ loaded
  /\ ps.installed
  /\ \E q \in Created(ps.p.kind, ps.canvas, ps.p.slot) : ps' = createStars(ps, q)
  /\ ParticleFrame("respawn")
  /\ UNCHANGED thrown

\* ParticleSystem.reinit called by a script of the page.
ReinitCall ==
  /\ loaded
  /\ ps.installed
  /\ Reinit
  /\ ParticleFrame("reinit")
  /\ UNCHANGED thrown

\* ParticleSystem.resize.
ResizeCall ==
  /\ loaded
  /\ ps.installed
  /\ \E z \in Zones : ps' = resizeCanvas(ps, z)
  /\ ParticleFrame("resizeCall")
  /\ UNCHANGED thrown

\* The call reinitializeScripts makes when window.ParticleSystem exists.
ParticleReinit == IF ps.installed THEN Reinit ELSE UNCHANGED ps

\* The particle background of a freshly loaded document.
ParticleLoad ==
  IF ps.installed
  THEN \E q \in Created(ps.p.kind, ps.win, ps.p.slot) :
         \E r \in Update(q, ps.win) : ps' = ParticleInit(ps.win, q, r)
  ELSE UNCHANGED ps

\* ------------------------------------------------------------ scroll reveal
\* initScrollAnimations of common.js.  The elements followed are the two
\* that survive a splice: the main element, which matches .fade-in while
\* the controller has put that class on it, and a .fade-in element outside
\* the spliced regions (a footer).  An element is followed through its
\* inline opacity, its visible class, whether some IntersectionObserver
\* observes it, and whether it intersects the viewport by the 0.1
\* threshold.  Observers are never disconnected and their callbacks are
\* idempotent, so their number is not kept.
ScrollElements == {"main", "footer"}
El(style, visible, observed, inView) ==
  [style |-> style, visible |-> visible, observed |-> observed, inView |-> inView]
NoScroll ==
  [installed |-> FALSE, els |-> [e \in ScrollElements |-> El("unset", FALSE, FALSE, FALSE)]]

\* initScrollAnimations over the elements that match its selector: each
\* .fade-in element gets opacity 0 and every one is observed by the new
\* observer.
initScrollAnimations(els, marked) ==
  [e \in ScrollElements |->
     IF e \in marked
     THEN [els[e] EXCEPT !.style = "0", !.observed = TRUE]
     ELSE els[e]]

\* The elements that match .fade-in when main does or does not carry the
\* class.
MarkedElements(mainMarked) ==
  {"footer"} \cup (IF mainMarked THEN {"main"} ELSE {})

\* The call reinitializeScripts makes when window.initScrollAnimations is
\* published; it runs after main has been given fade-in again.
ScrollReinit ==
  IF sa.installed
  THEN sa' = [sa EXCEPT !.els = initScrollAnimations(@, MarkedElements(doc.main # None))]
  ELSE UNCHANGED sa

\* common.js in a freshly loaded document: its init runs before or after
\* the init of the controller, which puts fade-in on main.
ScrollLoad(hasMain) ==
  IF sa.installed
  THEN \E after \in BOOLEAN :
         sa' = [sa EXCEPT !.els = initScrollAnimations(NoScroll.els,
                                     MarkedElements(hasMain /\ after))]
  ELSE UNCHANGED sa

\* The element has been revealed: opacity 1, or the visible class.
Revealed(e) == sa.els[e].style = "1" \/ sa.els[e].visible

ScrollFrame(type, e) ==
  /\ ev' = Event(type, e, 0, FALSE)
  /\ UNCHANGED <<controller, thrown, ps, cg>>

\* The viewport is scrolled or laid out anew and e starts or stops
\* intersecting it.
Scroll(e) ==
  /\ loaded
  /\ sa.installed
  /\ e = "main" => doc.main # None
  /\ sa' = [sa EXCEPT !.els[e].inView = ~@]
  /\ ScrollFrame("scroll", e)

\* An observer reports e as intersecting: the callback of
\* initScrollAnimations (common.js 47-57).
Intersect(e) ==
  /\ loaded
  /\ sa.installed
  /\ sa.els[e].observed
  /\ sa.els[e].inView
  /\ LET fadeIn == IF e = "main" THEN "fade-in" \in ui.mainClass ELSE TRUE
     IN sa' = IF fadeIn
              THEN [sa EXCEPT !.els[e].style = "1"]
              ELSE [sa EXCEPT !.els[e].visible = TRUE]
  /\ ScrollFrame("intersect", e)

\* ------------------------------------------------------------- cursor glow
\* cursor-glow.js.  A device is what init reads of it ('ontouchstart' in
\* window, navigator.maxTouchPoints) and whether touch is its primary
\* input; a touch-primary device reports at least one touch point.
\* Pointer coordinates are pixels on an integer grid.
Devices ==
  {d \in [ontouchstart : BOOLEAN, maxTouchPoints : 0..1, primary : {"touch", "mouse"}] :
     d.primary = "touch" => d.maxTouchPoints > 0}
Point(x, y) == [x |-> x, y |-> y]
MousePoints == {Point(0, 0), Point(40, 20)}
NoDevice == [ontouchstart |-> FALSE, maxTouchPoints |-> 0, primary |-> "mouse"]
CursorListeners == {"mousemove", "mouseenter", "mouseleave"}
NoCursor ==
  [installed |-> FALSE, device |-> NoDevice, isTouch |-> FALSE, glow |-> FALSE,
   opacity |-> "0", listeners |-> {}, mouse |-> Point(0, 0),
   current |-> Point(0, 0), frame |-> FALSE]

\* init without its early return on a touch device.
CursorInitNoTouchCheck(d) ==
  [NoCursor EXCEPT !.installed = TRUE, !.device = d,
     !.isTouch = d.ontouchstart \/ d.maxTouchPoints > 0,
     !.glow = TRUE, !.listeners = CursorListeners, !.frame = TRUE]

\* init of the cursor glow on the device d, with the first call of animate
\* (current is already at the pointer's initial position).
CursorInit(d) ==
  LET touch == d.ontouchstart \/ d.maxTouchPoints > 0
      s == [NoCursor EXCEPT !.installed = TRUE, !.device = d, !.isTouch = touch]
  IN IF touch
     THEN s
     ELSE [s EXCEPT !.glow = TRUE, !.listeners = CursorListeners, !.frame = TRUE]

\* One coordinate eased towards the pointer by the smoothing fraction
\* (0.15, in hundredths).
Ease(c, m) == c + ((m - c) * smoothing) \div 100

CursorFrame(type) ==
  /\ ev' = Event(type, None, 0, FALSE)
  /\ UNCHANGED <<controller, thrown, ps, sa>>

\* A mousemove event reaches the document: onMouseMove, if registered.
MouseMove(pt) ==
  /\ loaded
  /\ cg.installed
  /\ cg' = IF "mousemove" \in cg.listeners THEN [cg EXCEPT !.mouse = pt] ELSE cg
  /\ CursorFrame("mousemove")

\* A mouseenter or mouseleave event reaches the document: onMouseEnter or
\* onMouseLeave, if registered, sets the opacity of the glow element.
MouseEnterLeave(enter) ==
  /\ loaded
  /\ cg.installed
  /\ LET type == IF enter THEN "mouseenter" ELSE "mouseleave"
     IN /\ cg' = IF type \in cg.listeners /\ cg.glow
                 THEN [cg EXCEPT !.opacity = IF enter THEN "1" ELSE "0"]
                 ELSE cg
        /\ CursorFrame(type)

\* The callback of requestAnimationFrame runs animate of the cursor glow.
CursorAnimate ==
  /\ loaded
  /\ cg.installed
  /\ cg.frame
  /\ cg' = [cg EXCEPT !.current = Point(Ease(@.x, cg.mouse.x), Ease(@.y, cg.mouse.y))]
  /\ CursorFrame("glowFrame")

\* The cursor glow of a freshly loaded document.
CursorLoad == cg' = IF cg.installed THEN CursorInit(cg.device) ELSE cg

\* -------------------------------------------------------------- responses
\* What a fetch settles with: a success response carrying the page of the
\* requested URL, a non-success response carrying an error page, or a
\* rejection (network error).  A response body is a document: its regions
\* may be present or absent, and its main region may hold a timeline whose
\* markup marks any set of items active, inside a .timeline-container or
\* not.
Bodies ==
  [page : Pages, hasMain : BOOLEAN, hasHeader : BOOLEAN, hasNav : BOOLEAN,
   hasTl : BOOLEAN, tlActive : SUBSET Items, hasContainer : BOOLEAN]
WellFormed(b) ==
  /\ b.hasTl => b.hasMain
  /\ ~b.hasTl => b.tlActive = {} /\ ~b.hasContainer
Response(status, b) ==
  [status |-> status, page |-> b.page, hasMain |-> b.hasMain,
   hasHeader |-> b.hasHeader, hasNav |-> b.hasNav, hasTl |-> b.hasTl,
   tlActive |-> b.tlActive, hasContainer |-> b.hasContainer]
NoBody ==
  [page |-> None, hasMain |-> FALSE, hasHeader |-> FALSE, hasNav |-> FALSE,
   hasTl |-> FALSE, tlActive |-> {}, hasContainer |-> FALSE]
Responses ==
  {Response("ok", b) : b \in {x \in Bodies : WellFormed(x) /\ x.page \in URLs}}
  \cup {Response("notok", b) : b \in {x \in Bodies : WellFormed(x) /\ x.page = ErrorPage}}
  \cup {Response("error", NoBody)}
\* The responses a fetch of url can settle with.
Answers(r, url) == r.status = "ok" => r.page = url

\* ------------------------------------------------------------- the splice
\* Whether the splice replaces the main region: both documents have one.
ReplacesMain(r) == doc.main # None /\ r.hasMain

\* The nav reconciliation of updatePage / handlePopState.
SpliceNav(r) ==
  IF r.hasNav /\ doc.nav = None
  THEN IF doc.header # None THEN r.page ELSE None
  ELSE IF ~r.hasNav /\ doc.nav # None
  THEN None
  ELSE IF doc.nav # None /\ r.hasNav
  THEN r.page
  ELSE doc.nav

\* Title, regions and classes after the parsed response r is spliced in
\* (updatePage 879-926, handlePopState 980-1023); url is window.location
\* at that moment, against which the inserted markup resolves its relative
\* paths.
Splice(r, url) ==
  /\ doc' = [title |-> r.page,
             main |-> IF ReplacesMain(r) THEN r.page ELSE doc.main,
             header |-> IF doc.header # None /\ r.hasHeader THEN r.page ELSE doc.header,
             nav |-> SpliceNav(r),
             spliced |-> TRUE,
             base |-> url]
  /\ ui' = [ui EXCEPT
        !.body = {"transitioning"},
        !.mainClass = IF ReplacesMain(r) THEN {} ELSE @]
  /\ tl' = IF ReplacesMain(r)
           THEN [items |-> IF r.hasTl THEN Items ELSE {},
                 active |-> r.tlActive, h1 |-> FALSE, h2 |-> 0,
                 container |-> r.hasContainer, timers |-> tl.timers]
           ELSE tl

\* updatePage replacing the regions before it pushes the URL.
updatePageSplicesFirst(i, r) ==
  /\ Splice(r, Location)
  /\ history' = PushEntry(history, hidx, tasks[i].url)
  /\ hidx' = Len(history')
  /\ tasks' = Append(RemoveAt(tasks, i), Task("enterTimer", "click", tasks[i].url, enterDelay))
  /\ UNCHANGED <<isTransitioning, pendingNav>>

\* updatePage: push the URL, splice, arm the 100 ms timer.
updatePage(i, r) ==
  /\ history' = PushEntry(history, hidx, tasks[i].url)
  /\ hidx' = Len(history')
  /\ Splice(r, history'[hidx'])
  /\ tasks' = Append(RemoveAt(tasks, i), Task("enterTimer", "click", tasks[i].url, enterDelay))
  /\ UNCHANGED <<isTransitioning, pendingNav>>

\* fetchPage whose catch assigns the current address instead of the
\* requested URL.
FetchPageSettlesCurrentUrl(i, r) ==
  IF r.status = "ok"
  THEN updatePage(i, r)
  ELSE /\ pendingNav' = [kind |-> "assign", url |-> Location]
       /\ tasks' = RemoveAt(tasks, i)
       /\ UNCHANGED <<isTransitioning, history, hidx, doc, ui, tl>>

\* fetchPage whose catch issues the fetch again instead of falling back to
\* a full navigation.
FetchPageSettlesRetry(i, r) ==
  IF r.status = "ok"
  THEN updatePage(i, r)
  ELSE /\ tasks' = Append(RemoveAt(tasks, i), Task("fetch", "click", tasks[i].url, 0))
       /\ UNCHANGED <<isTransitioning, pendingNav, history, hidx, doc, ui, tl>>

\* fetchPage's promise chain settles: a success response goes to updatePage,
\* a non-success response throws and, like a rejection, reaches the catch,
\* which assigns window.location.href.
FetchPageSettles(i, r) ==
  IF r.status = "ok"
  THEN updatePage(i, r)
  ELSE /\ pendingNav' = [kind |-> "assign", url |-> tasks[i].url]
       /\ tasks' = RemoveAt(tasks, i)
       /\ UNCHANGED <<isTransitioning, history, hidx, doc, ui, tl>>

\* handlePopState whose catch only logs the error.
PopFetchSettlesNoReload(i, r) ==
  IF r.status # "error"
  THEN /\ Splice(r, Location)
       /\ tasks' = Append(RemoveAt(tasks, i), Task("enterTimer", "pop", tasks[i].url, enterDelay))
       /\ UNCHANGED <<isTransitioning, pendingNav, history, hidx>>
  ELSE /\ tasks' = RemoveAt(tasks, i)
       /\ UNCHANGED <<isTransitioning, pendingNav, history, hidx, doc, ui, tl>>

\* handlePopState pushing the URL before it splices, as updatePage does.
PopFetchSettlesPushes(i, r) ==
  IF r.status # "error"
  THEN /\ history' = PushEntry(history, hidx, tasks[i].url)
       /\ hidx' = Len(history')
       /\ Splice(r, history'[hidx'])
       /\ tasks' = Append(RemoveAt(tasks, i), Task("enterTimer", "pop", tasks[i].url, enterDelay))
       /\ UNCHANGED <<isTransitioning, pendingNav>>
  ELSE /\ pendingNav' = [kind |-> "reload", url |-> Location]
       /\ tasks' = RemoveAt(tasks, i)
       /\ UNCHANGED <<isTransitioning, history, hidx, doc, ui, tl>>

\* The promise chain of handlePopState settles: any response, whatever its
\* status, is parsed and spliced (no response.ok test, no pushState); a
\* rejection reaches the catch, which reloads the page.
PopFetchSettles(i, r) ==
  IF r.status # "error"
  THEN /\ Splice(r, Location)
       /\ tasks' = Append(RemoveAt(tasks, i), Task("enterTimer", "pop", tasks[i].url, enterDelay))
       /\ UNCHANGED <<isTransitioning, pendingNav, history, hidx>>
  ELSE /\ pendingNav' = [kind |-> "reload", url |-> Location]
       /\ tasks' = RemoveAt(tasks, i)
       /\ UNCHANGED <<isTransitioning, history, hidx, doc, ui, tl>>

FetchSettle(i, r) ==
  /\ loaded
  /\ i \in 1..Len(tasks)
  /\ tasks[i].kind = "fetch"
  /\ Answers(r, tasks[i].url)
  /\ IF tasks[i].path = "click" THEN FetchPageSettles(i, r) ELSE PopFetchSettles(i, r)
  /\ ev' = NoEvent
  /\ UNCHANGED <<loaded, thrown, ps, sa, cg>>

\* The names the scripts publish on window: common.js publishes
\* initScrollAnimations (line 73) and the particle background publishes
\* ParticleSystem (part_000:741); timeline.js publishes nothing.
Published ==
  (IF sa.installed THEN {"initScrollAnimations"} ELSE {})
  \cup (IF ps.installed THEN {"ParticleSystem"} ELSE {})

\* reinitializeScripts: ParticleSystem.reinit if published; initTimeline if
\* published, which it never is; initScrollAnimations if published; then
\* the inline block attaches a click listener to every timeline header
\* present.
reinitializeScripts ==
  /\ IF "ParticleSystem" \in Published THEN ParticleReinit ELSE UNCHANGED ps
  /\ IF "initScrollAnimations" \in Published THEN ScrollReinit ELSE UNCHANGED sa
  /\ tl' = [tl EXCEPT
        !.h1 = IF "initTimeline" \in Published /\ tl.items # {} THEN TRUE ELSE @,
        !.h2 = IF tl.items # {} THEN @ + 1 ELSE @]

\* The 100 ms callback stopping before it arms the 500 ms timer.
EnterTimerNoCleanup(i) ==
  /\ loaded
  /\ i \in 1..Len(tasks)
  /\ tasks[i].kind = "enterTimer"
  /\ ui' = [ui EXCEPT
        !.overlay = FALSE,
        !.mainClass = IF doc.main # None THEN (@ \ {"fade-out"}) \cup {"fade-in"} ELSE @]
  /\ reinitializeScripts
  /\ tasks' = RemoveAt(tasks, i)
  /\ ev' = NoEvent
  /\ UNCHANGED <<isTransitioning, history, hidx, pendingNav, loaded, doc, thrown, cg>>

\* The 100 ms timer after the splice: hide the overlay, apply the entering
\* state, re-run the initializers, arm the 500 ms timer.
EnterTimer(i) ==
  /\ loaded
  /\ i \in 1..Len(tasks)
  /\ tasks[i].kind = "enterTimer"
  /\ ui' = [ui EXCEPT
        !.overlay = FALSE,
        !.mainClass = IF doc.main # None THEN (@ \ {"fade-out"}) \cup {"fade-in"} ELSE @]
  /\ reinitializeScripts
  /\ tasks' = Append(RemoveAt(tasks, i),
                     Task("cleanupTimer", tasks[i].path, tasks[i].url, cleanupDelay))
  /\ ev' = NoEvent
  /\ UNCHANGED <<isTransitioning, history, hidx, pendingNav, loaded, doc, thrown, cg>>

\* The 500 ms timer: clear the entering state and the flag.
CleanupTimer(i) ==
  /\ loaded
  /\ i \in 1..Len(tasks)
  /\ tasks[i].kind = "cleanupTimer"
  /\ ui' = [ui EXCEPT
        !.body = (@ \ {"transitioning"}) \cup {"page-loaded"},
        !.mainClass = IF doc.main # None THEN @ \ {"fade-in"} ELSE @]
  /\ isTransitioning' = FALSE
  /\ tasks' = RemoveAt(tasks, i)
  /\ ev' = NoEvent
  /\ UNCHANGED <<history, hidx, pendingNav, loaded, doc, tl, thrown, ps, sa, cg>>

\* ------------------------------------------------------------- page load
\* The state once the document b served for u has loaded and every script
\* has run its initializer: the flag is false, the overlay exists and is
\* hidden, main carries fade-in, initTimeline has attached its listeners.
FreshDoc(b) ==
  [title |-> b.page,
   main |-> IF b.hasMain THEN b.page ELSE None,
   header |-> IF b.hasHeader THEN b.page ELSE None,
   nav |-> IF b.hasNav THEN b.page ELSE None,
   spliced |-> FALSE,
   base |-> b.page]
FreshUi(b) ==
  [overlay |-> FALSE,
   mainClass |-> IF b.hasMain THEN {"fade-in"} ELSE {},
   body |-> {"loaded", "page-loaded"}]
FreshTimeline(b) ==
  [items |-> IF b.hasTl THEN Items ELSE {}, active |-> b.tlActive,
   h1 |-> b.hasTl, h2 |-> 0, container |-> b.hasContainer, timers |-> <<>>]

\* The browser commits the pending full navigation (a default link
\* navigation, an assignment of location.href, or a reload).  Leaving for
\* another site ends the program; otherwise the scripts start afresh in the
\* new document.
Load(b) ==
  /\ loaded
  /\ pendingNav.kind # None
  /\ IF pendingNav.url = External
     THEN /\ loaded' = FALSE
          /\ UNCHANGED <<history, hidx>>
          /\ doc' = FreshDoc(NoBody)
          /\ ui' = FreshUi(NoBody)
          /\ tl' = NoTimeline
          /\ UNCHANGED <<ps, sa, cg>>
     ELSE /\ b.page = pendingNav.url
          /\ loaded' = TRUE
          /\ history' = <<pendingNav.url>>
          /\ hidx' = 1
          /\ doc' = FreshDoc(b)
          /\ ui' = FreshUi(b)
          /\ tl' = FreshTimeline(b)
          /\ ParticleLoad
          /\ ScrollLoad(b.hasMain)
          /\ CursorLoad
  /\ isTransitioning' = FALSE
  /\ tasks' = <<>>
  /\ pendingNav' = NoNav
  /\ ev' = NoEvent
  /\ thrown' = {}

\* ------------------------------------------------------------- timeline
\* The listener of initTimeline (timeline.js 19-49) on the header of item
\* it: nothing on a click inside a .timeline-link; otherwise the other
\* items of the list captured at load lose active and it toggles.
TimelineListener(active, it, onLink) ==
  IF onLink
  THEN active
  ELSE LET isActive == it \in active
           closed == active \ (Items \ {it})
       IN IF isActive THEN closed \ {it} ELSE closed \cup {it}

\* The reattached listener toggling without closing the other items.
ReinitListenerNoClose(active, it) ==
  LET isActive == it \in active
  IN IF isActive THEN active \ {it} ELSE active \cup {it}

\* The listener reinitializeScripts attaches (part_000 1077-1089): every
\* item loses active, and it gains it if it was not active.
ReinitListener(active, it) ==
  LET isActive == it \in active
  IN IF isActive THEN {} ELSE {it}

RECURSIVE ReinitListeners(_, _, _)
ReinitListeners(n, active, it) ==
  IF n = 0 THEN active ELSE ReinitListeners(n - 1, ReinitListener(active, it), it)

\* A click on the header of item it: the listeners run in the order they
\* were attached.
HeaderClick(it, onLink) ==
  /\ loaded
  /\ it \in tl.items
  /\ Len(tl.timers) < MaxScrollTimers
  /\ LET a1 == IF tl.h1 THEN TimelineListener(tl.active, it, onLink) ELSE tl.active
         opens == tl.h1 /\ ~onLink /\ it \notin tl.active
     IN tl' = [tl EXCEPT !.active = ReinitListeners(tl.h2, a1, it),
                         !.timers = IF opens THEN Append(@, it) ELSE @]
  /\ ev' = Event("header", None, it, FALSE)
  /\ UNCHANGED <<isTransitioning, tasks, history, hidx, pendingNav, loaded, doc, ui,
               thrown, ps, sa, cg>>

\* The 100 ms timer the listener of initTimeline arms when it opens an item
\* (timeline.js 39-47): it looks .timeline-container up in the document as
\* it is now and calls getBoundingClientRect on the result without testing
\* it, which raises a TypeError when no such element exists.
ScrollTimer(k) ==
  /\ loaded
  /\ k \in 1..Len(tl.timers)
  /\ tl' = [tl EXCEPT !.timers = RemoveAt(@, k)]
  /\ thrown' = IF tl.container THEN thrown ELSE thrown \cup {"TypeError"}
  /\ ev' = Event("scrollTimer", None, tl.timers[k], FALSE)
  /\ UNCHANGED <<isTransitioning, tasks, history, hidx, pendingNav, loaded, doc, ui,
               ps, sa, cg>>

\* ------------------------------------------------------- specifications
\* The controller and the document once b has loaded.
PageInit(bodies) ==
  \E b \in bodies :
    /\ isTransitioning = FALSE
    /\ tasks = <<>>
    /\ history = <<b.page>>
    /\ hidx = 1
    /\ pendingNav = NoNav
    /\ loaded = TRUE
    /\ doc = FreshDoc(b)
    /\ ui = FreshUi(b)
    /\ tl = FreshTimeline(b)
    /\ ev = NoEvent
    /\ thrown = {}

\* A page that carries the controller and the timeline script only.
InitWith(bodies) ==
  /\ PageInit(bodies)
  /\ ps = NoParticles
  /\ sa = NoScroll
  /\ cg = NoCursor

\* A response is drawn only while the listeners it would stack stay within
\* the cap.
WithinCap(r) ==
  (r.status # "error" /\ ~ReplacesMain(r) /\ tl.items # {}) => tl.h2 < MaxListeners

\* Documents without a timeline, with a header and a nav region: what the
\* checks of the transition protocol load and fetch.
PlainBodies ==
  {b \in Bodies : WellFormed(b) /\ b.page \in URLs /\ ~b.hasTl /\ b.hasHeader /\ b.hasNav}
PlainResponses ==
  {r \in Responses :
     ~r.hasTl /\ (r.status # "error" => r.hasMain /\ r.hasHeader /\ r.hasNav)}

\* One step of the program over the anchors, responses and loaded
\* documents the environment may offer.
Step(links, responses, bodies) ==
  \/ \E l \in links : Click(l)
  \/ \E j \in 1..MaxHist : PopState(j)
  \/ \E i \in 1..Len(tasks) : ExitTimer(i)
  \/ \E i \in 1..Len(tasks), r \in responses : WithinCap(r) /\ FetchSettle(i, r)
  \/ \E i \in 1..Len(tasks) : EnterTimer(i)
  \/ \E i \in 1..Len(tasks) : CleanupTimer(i)
  \/ \E b \in bodies : Load(b)

Init == InitWith(PlainBodies)

Next == Step(Links, PlainResponses, PlainBodies)

Spec == Init /\ [][Next]_vars

\* The browser fires every armed timer, settles every fetch and commits
\* every full navigation it was asked for.
Fairness ==
  /\ WF_vars(\E i \in 1..Len(tasks) : ExitTimer(i))
  /\ WF_vars(\E i \in 1..Len(tasks), r \in PlainResponses : FetchSettle(i, r))
  /\ WF_vars(\E i \in 1..Len(tasks) : EnterTimer(i))
  /\ WF_vars(\E i \in 1..Len(tasks) : CleanupTimer(i))
  /\ WF_vars(\E b \in PlainBodies : Load(b))

\* The anchors the liveness checks click: an internal link to each page, an
\* external link, and a fragment link with and without the smooth-scroll
\* listener.
FairLinks ==
  {l \in Links : \/ l.kind = "path" /\ ~l.blank /\ ~l.download
                 \/ l.kind = "fragment" /\ l.frag = "target"}

FairNext == Step(FairLinks, PlainResponses, PlainBodies)

FairSpec == Init /\ [][FairNext]_vars /\ Fairness

\* ------------------------------------------------------------------ C1
\* C1: at most one transition is in progress at a time: the controller never
\* holds more than one pending timer or fetch, it holds one only while
\* isTransitioning is true, and while the flag is true no click and no
\* popstate adds a timer or a fetch.
OneTransition ==
  /\ Len(tasks) <= 1
  /\ tasks # <<>> => isTransitioning

C1_Witness ==
  /\ isTransitioning
  /\ Len(tasks) = 1
  /\ tasks[1].kind = "fetch"
  /\ ev.type = "pop"

\* ------------------------------------------------------------------ C2
\* Anchors whose href is a path of this site.
InternalLinks == {l \in Links : l.kind = "path" /\ l.url \in URLs}

ExemptLinks ==
  {l \in Links : \/ l.kind = "path" /\ l.url = External
                 \/ l.kind \in {"fragment", "mailto", "tel"}
                 \/ l.blank
                 \/ l.download}

C4_AsStated ==
  [][\A i \in 1..Len(tasks) :
       (CleanupTimer(i) /\ tasks[i].path = "click") =>
         /\ Location' = tasks[i].url
         /\ doc'.title = tasks[i].url
    ]_vars

\* ------------------------------------------------------------------ C5
Rejection == Response("error", NoBody)

\* C5: when the fetch of a link-click transition is rejected,
\* window.location.href is assigned the requested URL; when the fetch of a
\* popstate transition is rejected, the page is reloaded; in both cases the
\* title, the regions and the timeline of the document stay as they were.
C5_FailedFetch ==
  [][\A i \in 1..Len(tasks) :
       FetchSettle(i, Rejection) =>
         /\ doc' = doc
         /\ tl' = tl
         /\ pendingNav' = IF tasks[i].path = "click"
                          THEN [kind |-> "assign", url |-> tasks[i].url]
                          ELSE [kind |-> "reload", url |-> Location]
    ]_vars

C5_Witness ==
  /\ pendingNav.kind = "assign"
  /\ pendingNav.url # Location
  /\ isTransitioning
  /\ tasks = <<>>
  /\ ~doc.spliced

\* ------------------------------------------------------------------ C7
\* C7 as stated: a fetch that completes with a non-success status is handled
\* as a failure on both paths: the location is assigned on the link-click
\* path, the page is reloaded on the popstate path, and the body is not
\* spliced into the document.  Violated on the popstate path, whose chain
\* never tests response.ok.
C7_AsStated ==
  [][\A i \in 1..Len(tasks) : \A r \in {x \in PlainResponses : x.status = "notok"} :
       FetchSettle(i, r) =>
         /\ doc' = doc
         /\ pendingNav' = IF tasks[i].path = "click"
                          THEN [kind |-> "assign", url |-> tasks[i].url]
                          ELSE [kind |-> "reload", url |-> Location]
    ]_vars

\* ------------------------------------------------------------------ C6
\* The state a failed fetch leaves behind: the catch of the fetch chain has
\* run, so the flag is still true and no timer or fetch is left to clear it.
FailureHandled ==
  /\ isTransitioning
  /\ tasks = <<>>

NavigationBegins ==
  \/ \E l \in FairLinks : ~SkipLink(l) /\ Click(l)
  \/ \E j \in 1..MaxHist : ~isTransitioning /\ PopState(j)

\* The content of a successful fetch has been spliced in.
Swapped == \E i \in 1..Len(tasks) : tasks[i].kind = "enterTimer"

\* C8: the flag is false at load; it becomes true when a same-origin
\* navigation begins; once true it is cleared only by the 500 ms timer that
\* the 100 ms timer arms (or by a fresh page load); and after every splice
\* of a successful fetch it is eventually false again.
C8_FlagLifecycle ==
  /\ ~isTransitioning
  /\ [][(\E b \in PlainBodies : Load(b)) => ~isTransitioning']_vars
  /\ [][NavigationBegins => isTransitioning']_vars
  /\ [][(isTransitioning /\ ~isTransitioning') =>
          \/ \E i \in 1..Len(tasks) :
               /\ CleanupTimer(i)
               /\ tasks[i].delay = cleanupDelay
          \/ \E b \in PlainBodies : Load(b)]_vars
  /\ [][\A i \in 1..Len(tasks) :
          EnterTimer(i) => \E k \in 1..Len(tasks') :
                             /\ tasks'[k].kind = "cleanupTimer"
                             /\ tasks[i].delay = enterDelay]_vars
  /\ (Swapped ~> ~isTransitioning)

C8_Witness ==
  /\ isTransitioning
  /\ Len(tasks) = 1
  /\ tasks[1].kind = "cleanupTimer"
  /\ tasks[1].path = "pop"
  /\ doc.spliced

\* ------------------------------------------------------------- timeline
\* The accordion is checked on one page, "/a", served with or without a
\* main region and with any timeline markup, reached by link clicks and
\* history pops.
TimelineBodies ==
  {b \in Bodies : WellFormed(b) /\ b.page \in {"/a", ErrorPage} /\ b.hasHeader /\ b.hasNav}
TimelineResponses ==
  {r \in Responses : r.status # "error" => Response(r.status, r) \in
                       {Response(r.status, b) : b \in TimelineBodies}}
TimelineLinks == {l \in InternalLinks : l.url = "/a" /\ ~l.blank /\ ~l.download}

TimelineInit == InitWith({b \in TimelineBodies : b.page = "/a"})

TimelineNext ==
  \/ Step(TimelineLinks, TimelineResponses, TimelineBodies)
  \/ \E it \in Items, onLink \in BOOLEAN : HeaderClick(it, onLink)
  \/ \E k \in 1..MaxScrollTimers : ScrollTimer(k)

TimelineSpec == TimelineInit /\ [][TimelineNext]_vars

\* The header of every item carries at least one click listener.
ListenersAttached == tl.h1 \/ tl.h2 > 0

\* ------------------------------------------------------------------ C9
\* C9 as stated: with item A open, a click on the header of another item B
\* leaves exactly B active, and a click on the header of A leaves no item
\* active.  Violated once reinitializeScripts has added its listener to
\* headers that still carry the listener of initTimeline.
C9_AsStated ==
  [][\A a \in Items, it \in Items :
       (tl.active = {a} /\ ListenersAttached /\ HeaderClick(it, FALSE)) =>
         tl'.active = IF it = a THEN {} ELSE {it}
    ]_vars

\* ----------------------------------------------------------------- C10
\* C10: after a header click that a listener acts on (the listener of
\* initTimeline on a click outside a .timeline-link, or a listener attached
\* by reinitializeScripts), at most one timeline item is active, whatever
\* the markup marked active and however many listeners a page transition
\* has stacked on the header.
C10_AtMostOneActive ==
  [][\A it \in Items, onLink \in BOOLEAN :
       (HeaderClick(it, onLink) /\ ((tl.h1 /\ ~onLink) \/ tl.h2 > 0)) =>
         Cardinality(tl'.active) <= 1
    ]_vars

C10_Witness ==
  /\ ev.type = "header"
  /\ doc.spliced
  /\ ~tl.h1
  /\ tl.h2 = 1
  /\ Cardinality(tl.active) = 1

\* ------------------------------------------------------ particle background
\* The particle background on its own: one page, no page transition; the
\* window starts at the larger size and takes any of the four sizes.  The
\* particle followed is the first element of one of the four arrays.
LargeViewport == 14
SmallViewport == 2
Viewports == {SmallViewport, LargeViewport}
StaticPage == {b \in PlainBodies : b.page = "/a" /\ b.hasMain}

ParticleSpecInit ==
  /\ PageInit(StaticPage)
  /\ \E kind \in Kinds :
       \E q \in Created(kind, LargeViewport, 0) :
         \E r \in Update(q, LargeViewport) :
           ps = ParticleInit(LargeViewport, q, r)
  /\ sa = NoScroll
  /\ cg = NoCursor

ParticleNext ==
  \/ \E live \in BOOLEAN : AnimationFrame(live)
  \/ \E v \in Viewports : Resize(v)
  \/ Elapse
  \/ ResizeTimer
  \/ \E visible \in BOOLEAN : VisibilityChange(visible)
  \/ \E persisted \in BOOLEAN : PageShow(persisted)
  \/ Destroy
  \/ Respawn
  \/ ReinitCall
  \/ ResizeCall

ParticleSpec == ParticleSpecInit /\ [][ParticleNext]_vars

\* ----------------------------------------------------------------- C11
\* C11 as stated: ParticleSystem.destroy leaves no animation callback
\* scheduled, no resize timer pending, none of the resize, visibilitychange
\* and pageshow listeners registered, and the canvas out of the document.
\* Violated: destroy raises a ReferenceError on shootingStarIntervalId
\* right after cancelling the animation callback.
C11_AsStated ==
  [][(ev'.type = "destroy" /\ Destroy) =>
       /\ Scheduled(ps'.loop) = 0
       /\ ~ps'.resizeTimeout
       /\ ps'.listeners \cap ParticleListeners = {}
       /\ ~ps'.attached
    ]_vars

\* ----------------------------------------------------------------- C12
\* C12: when the debounce timer armed by a resize fires, the four particle
\* arrays (stars, nebulas, clusters, dust) are rebuilt at their configured
\* lengths for the canvas size, which is the window's size, and the
\* particle just generated lies within [-10, w+10] x [-10, h+10].
C12_Regenerated ==
  [][(ev'.type = "resizeTimer" /\ ResizeTimer) =>
       /\ ps'.canvas = ps.win
       /\ ps'.counts = ConfigCounts
       /\ ps'.gen = AllFor(ps.win)
       /\ InBox(ps'.p, ps.win)
       /\ ~ps'.resizeTimeout
    ]_vars

C12_Witness ==
  /\ ev.type = "resizeTimer"
  /\ ps.canvas = SmallViewport
  /\ ps.gen = AllFor(SmallViewport)
  /\ ps.p.kind = "dust"

\* ----------------------------------------------------------------- C20
\* C20: after every run of animate, with respect to the canvas size of
\* that frame, a star lies within [-10, w+10] x [-10, h+10] and a dust
\* particle within [0, w] x [0, h]; this includes the first frame after
\* the canvas has shrunk under particles generated for the larger size.
C20_InBounds ==
  [][\/ ev'.type = "frame" /\ \E live \in BOOLEAN : AnimationFrame(live)
     \/ ev'.type = "reinit" /\ ReinitCall
     \/ ev'.type = "pageshowCached" /\ PageShow(TRUE)
     =>
       /\ ps'.p.kind = "star" => InBox(ps'.p, ps'.canvas)
       /\ ps'.p.kind = "dust" => InCanvas(ps'.p, ps'.canvas)
    ]_vars

C20_Witness ==
  /\ ev.type = "frame"
  /\ ps.p.kind = "dust"
  /\ ps.canvas = SmallViewport
  /\ ps.gen.dust = LargeViewport
  /\ ps.resizeTimeout
  /\ ps.p.c = 0

\* ------------------------------------------------------------ scroll reveal
\* The controller on a site whose pages carry common.js: one URL, pages
\* without a timeline, reached by link clicks and history pops, with the
\* viewport scrolled and the observers reporting in between.
ScrollBodies == {b \in PlainBodies : b.page = "/a"}
ScrollResponses == {r \in PlainResponses : r.status = "ok" => r.page = "/a"}

ScrollSpecInit ==
  /\ PageInit(ScrollBodies)
  /\ ps = NoParticles
  /\ \E after \in BOOLEAN :
       sa = [installed |-> TRUE,
             els |-> initScrollAnimations(NoScroll.els,
                       MarkedElements(doc.main # None /\ after))]
  /\ cg = NoCursor

ScrollNext ==
  \/ Step(TimelineLinks, ScrollResponses, ScrollBodies)
  \/ \E e \in ScrollElements : Scroll(e)
  \/ \E e \in ScrollElements : Intersect(e)

ScrollSpec == ScrollSpecInit /\ [][ScrollNext]_vars

\* ----------------------------------------------------------------- C13
\* C13 as stated: initScrollAnimations and initTimeline are both published
\* on window, so the 100 ms callback after a swap re-runs both: every
\* marked element is observed again and every timeline header present
\* carries the listener of initTimeline.  Violated: timeline.js publishes
\* nothing, so reinitializeScripts never calls initTimeline.
C13_AsStated ==
  [][\A i \in 1..Len(tasks) :
       EnterTimer(i) =>
         /\ {"initScrollAnimations", "initTimeline"} \subseteq Published
         /\ \A e \in MarkedElements(doc.main # None) : sa'.els[e].observed
         /\ tl'.items # {} => tl'.h1
    ]_vars

\* ----------------------------------------------------------------- C15
\* C15 as stated: once an element has been revealed, neither a later
\* intersection change nor the re-run of initScrollAnimations after a page
\* transition hides it again.  Violated: the re-run sets the inline
\* opacity of every element that matches .fade-in back to 0, among them
\* elements that survive the splice and were already revealed, and main,
\* to which the controller has just added fade-in.
C15_AsStated ==
  [][(\/ \E i \in 1..Len(tasks) : EnterTimer(i)
      \/ \E e \in ScrollElements : Scroll(e) \/ Intersect(e))
     => \A e \in ScrollElements : Revealed(e) => Revealed(e)'
    ]_vars

\* ----------------------------------------------------------------- C14
\* C14 as stated: whichever of the expected elements are absent, no
\* handler and no timer callback raises an error.  Violated by the
\* scroll-into-view timer of the timeline when the document has no
\* .timeline-container.
C14_AsStated == thrown = {}

\* ----------------------------------------------------------------- C16
\* Pages of one URL with any combination of main, header and nav regions.
RegionBodies == {b \in Bodies : WellFormed(b) /\ b.page \in {"/a", ErrorPage} /\ ~b.hasTl}
RegionResponses ==
  {r \in Responses : r.status # "error" => Response(r.status, r) \in
                       {Response(r.status, b) : b \in RegionBodies}}

RegionInit == InitWith({b \in RegionBodies : b.page = "/a"})

RegionNext == Step(TimelineLinks, RegionResponses, RegionBodies)

RegionSpec == RegionInit /\ [][RegionNext]_vars

\* C16 as stated: after the splice of a successfully fetched document the
\* current document has a nav region exactly when the fetched one has.
\* Violated when the current document has neither a nav nor a header: the
\* nav is inserted after the header, and without one nothing is inserted.
C16_AsStated ==
  [][\A i \in 1..Len(tasks) : \A r \in {x \in RegionResponses : x.status = "ok"} :
       FetchSettle(i, r) => (doc'.nav # None <=> r.hasNav)
    ]_vars

\* ----------------------------------------------------------------- C17
\* The controller on a two-page site whose pages carry common.js, reached
\* by clicks on internal links and by history pops, with the observers
\* reporting in between.
ClickLinks == {l \in InternalLinks : ~l.blank /\ ~l.download}

ClickSpecInit ==
  /\ PageInit(PlainBodies)
  /\ ps = NoParticles
  /\ sa = [installed |-> TRUE,
           els |-> initScrollAnimations(NoScroll.els, MarkedElements(doc.main # None))]
  /\ cg = NoCursor

ClickNext ==
  \/ Step(ClickLinks, PlainResponses, PlainBodies)
  \/ \E e \in ScrollElements : Scroll(e)
  \/ \E e \in ScrollElements : Intersect(e)

ClickSpec == ClickSpecInit /\ [][ClickNext]_vars

\* The phase of the link-click transition in progress: the kind of the
\* timer or fetch it is waiting for.
ClickTasks == {k \in 1..Len(tasks) : tasks[k].path = "click"}
ClickTask == tasks[CHOOSE k \in ClickTasks : TRUE]
ClickPhase == IF ClickTasks = {} THEN "idle" ELSE ClickTask.kind

\* The order of the phases; a fetch that fails ends the transition.
PhaseOrder ==
  {<<"idle", "exitTimer">>, <<"exitTimer", "fetch">>, <<"fetch", "enterTimer">>,
   <<"fetch", "idle">>, <<"enterTimer", "cleanupTimer">>, <<"cleanupTimer", "idle">>}

\* The browser commits a full navigation: the document is unloaded.
Unloads == pendingNav.kind # None /\ pendingNav' = NoNav

\* C17: a link-click transition moves through its phases in one order.
\* Accepting the click sets the flag, applies the exiting state and arms
\* the 400 ms timer, leaving history and document alone; only that timer
\* issues the fetch; only a successful fetch pushes the URL and replaces
\* the regions, the push first (the regions are inserted under the pushed
\* address), with the overlay still shown; only the 100 ms timer armed
\* after that hides the overlay, applies the entering state and re-runs
\* the initializers, with the flag still set; the 500 ms timer clears the
\* entering state and the flag.  A failed fetch pushes nothing and
\* replaces nothing.
C17_PhaseOrder ==
  [][(ClickPhase' # ClickPhase /\ ~Unloads) =>
       /\ <<ClickPhase, ClickPhase'>> \in PhaseOrder
       /\ ClickPhase = "idle" =>
            /\ ~isTransitioning /\ isTransitioning'
            /\ ui'.overlay /\ "transitioning" \in ui'.body
            /\ doc.main # None => "fade-out" \in ui'.mainClass
            /\ ClickTask'.delay = transitionDuration
            /\ UNCHANGED <<history, hidx, doc, sa>>
       /\ ClickPhase = "exitTimer" =>
            /\ ClickTask'.url = ClickTask.url
            /\ UNCHANGED <<isTransitioning, history, hidx, doc, ui, sa>>
       /\ (ClickPhase = "fetch" /\ ClickPhase' = "enterTimer") =>
            /\ history' = PushEntry(history, hidx, ClickTask.url)
            /\ hidx' = Len(history')
            /\ doc'.spliced /\ doc'.title = ClickTask.url
            /\ doc'.base = ClickTask.url
            /\ ui'.overlay /\ isTransitioning'
            /\ ClickTask'.delay = enterDelay
            /\ UNCHANGED sa
       /\ (ClickPhase = "fetch" /\ ClickPhase' = "idle") =>
            /\ pendingNav'.kind = "assign"
            /\ UNCHANGED <<history, hidx, doc, sa>>
       /\ ClickPhase = "enterTimer" =>
            /\ ~ui'.overlay
            /\ doc.main # None => "fade-in" \in ui'.mainClass /\ "fade-out" \notin ui'.mainClass
            /\ sa'.els = initScrollAnimations(sa.els, MarkedElements(doc.main # None))
            /\ ClickTask'.delay = cleanupDelay
            /\ UNCHANGED <<isTransitioning, history, hidx, doc>>
       /\ ClickPhase = "cleanupTimer" =>
            /\ ~isTransitioning'
            /\ "fade-in" \notin ui'.mainClass /\ "transitioning" \notin ui'.body
            /\ UNCHANGED <<history, hidx, doc, sa>>
    ]_vars

\* The 500 ms timer of a link-click transition is pending: the URL was
\* pushed, the regions replaced under it, a revealed element was hidden
\* again by the re-run initializer, and the overlay is hidden.
C17_Witness ==
  /\ ClickPhase = "cleanupTimer"
  /\ isTransitioning
  /\ doc.spliced /\ doc.base = "/b" /\ Location = "/b" /\ history = <<"/a", "/b">>
  /\ ~ui.overlay
  /\ sa.els["footer"].inView /\ sa.els["footer"].style = "0"

\* ----------------------------------------------------------------- C18
\* The fetches and the timers that issue them.
Fetches(ts) == {k \in 1..Len(ts) : ts[k].kind = "fetch"}
Armed(ts) == {k \in 1..Len(ts) : ts[k].kind = "exitTimer"}

\* The fetch of a transition on the given path settled with r has failed:
\* fetchPage rejects a response that is not ok, handlePopState only a
\* network error.
Failed(path, r) == IF path = "click" THEN r.status # "ok" ELSE r.status = "error"

\* C18: there is no retry.  An accepted click or pop arms exactly one
\* 400 ms timer and nothing else; a fetch is issued only by that timer
\* firing, one fetch for one timer and for the same URL; a fetch that
\* fails leaves no fetch and no timer behind, and nothing is issued
\* afterwards until the document is unloaded.
C18_NoRetry ==
  [][~Unloads =>
       /\ Cardinality(Fetches(tasks') \cup Armed(tasks')) <= 1
       /\ (Armed(tasks') # {} /\ Armed(tasks) = {}) =>
            /\ ev'.type \in {"click", "pop"}
            /\ ~isTransitioning /\ tasks = <<>>
            /\ tasks' = <<Task("exitTimer", tasks'[1].path, tasks'[1].url, transitionDuration)>>
       /\ (Fetches(tasks') # {} /\ Fetches(tasks) = {}) =>
            /\ Armed(tasks) # {} /\ Armed(tasks') = {}
            /\ tasks'[1].url = tasks[1].url /\ tasks'[1].path = tasks[1].path
       /\ \A i \in Fetches(tasks) : \A r \in PlainResponses :
            (FetchSettle(i, r) /\ Failed(tasks[i].path, r)) =>
               /\ tasks' = <<>>
               /\ isTransitioning'
               /\ pendingNav'.kind \in {"assign", "reload"}
       /\ (tasks = <<>> /\ isTransitioning) => tasks' = <<>>
    ]_vars

\* The fetch of a link-click transition that followed a completed one has
\* failed: no fetch and no timer is pending, and the full navigation to
\* the requested URL has been asked for.
C18_Witness ==
  /\ tasks = <<>>
  /\ isTransitioning
  /\ doc.spliced
  /\ pendingNav.kind = "assign"
  /\ pendingNav.url # Location

\* ----------------------------------------------------------------- C19
\* cursor-glow.js on a static page, on any device, with the pointer events
\* the browser dispatches and the animation callbacks it runs.
CursorSpecInit ==
  /\ PageInit(StaticPage)
  /\ ps = NoParticles
  /\ sa = NoScroll
  /\ \E d \in Devices : cg = CursorInit(d)

CursorNext ==
  \/ \E pt \in MousePoints : MouseMove(pt)
  \/ \E enter \in BOOLEAN : MouseEnterLeave(enter)
  \/ CursorAnimate

CursorSpec == CursorSpecInit /\ [][CursorNext]_vars

\* C19: on a touch-primary device the cursor glow stays disabled: there is
\* no glow element, no pointer listener is registered, no animation
\* callback is scheduled, and no event moves the glow.
C19_TouchDisabled ==
  cg.device.primary = "touch" =>
    /\ cg.isTouch
    /\ ~cg.glow
    /\ cg.listeners \cap CursorListeners = {}
    /\ ~cg.frame
    /\ cg.mouse = Point(0, 0) /\ cg.current = Point(0, 0) /\ cg.opacity = "0"

\* A mousemove has been dispatched on a touch-primary device on which
\* init has run.
C19_Witness ==
  /\ cg.installed
  /\ cg.device.primary = "touch"
  /\ ev.type = "mousemove"

\* ----------------------------------------------------------------- C21
\* C21: resize is debounced.  Every call of resizeCanvas (the resize
\* listener, ParticleSystem.resize, a visibility change to visible, a
\* pageshow of a page not restored from the cache) gives the canvas the
\* window's size at once, regenerates nothing, and leaves one timer
\* pending, due 250 ms later; while the timer is pending it is due 250 ms
\* after the last call; it fires only when 250 ms have passed since the
\* last call, regenerates the particles for the canvas and leaves no timer
\* pending, so a burst of calls is followed by one regeneration.
C21_Debounced ==
  [][/\ (\/ ev'.type = "resize" /\ \E v \in Viewports : Resize(v)
         \/ ev'.type = "resizeCall" /\ ResizeCall
         \/ ev'.type = "visibilitychange" /\ VisibilityChange(TRUE)
         \/ ev'.type = "pageshow" /\ PageShow(FALSE))
        => /\ ps'.canvas = ps'.win
           /\ ps'.resizeTimeout /\ ps'.due = resizeDelay /\ ps'.quiet = 0
           /\ ps'.gen = ps.gen /\ ps'.counts = ps.counts
     /\ ps'.resizeTimeout => ps'.due + ps'.quiet = resizeDelay
     /\ (ev'.type = "resizeTimer" /\ ResizeTimer)
        => /\ ps.quiet = resizeDelay
           /\ ps'.gen = AllFor(ps.canvas)
           /\ ~ps'.resizeTimeout
     /\ (ps.resizeTimeout /\ ~ps'.resizeTimeout) => ev'.type = "resizeTimer"
    ]_vars

\* A second call of a burst: the canvas was resized by an earlier call
\* whose timer has not fired (the particles are still those of the old
\* size), and ParticleSystem.resize has armed the timer afresh.
C21_Witness ==
  /\ ev.type = "resizeCall"
  /\ ps.resizeTimeout
  /\ ps.due = resizeDelay
  /\ ps.gen.stars # ps.canvas

\* ----------------------------------------------------------------- C22
\* The timer or fetch of a transition begun by a history pop.
PopTasks == {k \in 1..Len(tasks) : tasks[k].path = "pop"}

\* C22: handling a history pop never pushes an entry.  The popstate
\* handler leaves the session history as the browser's traversal left it;
\* the timer and fetch callbacks of the pop path leave the history and
\* the current entry unchanged, and a response is spliced under the
\* current location; on the link-click path the successful fetch pushes
\* one entry for the requested URL, which becomes the current one, and no
\* other callback of the path touches the history.
C22_PopNeverPushes ==
  [][/\ ev'.type = "pop" => history' = history
     /\ (PopTasks # {} /\ ev' = NoEvent /\ ~Unloads) =>
          /\ UNCHANGED <<history, hidx>>
          /\ doc' # doc => doc'.base = Location /\ doc'.spliced
     /\ (ClickPhase = "fetch" /\ ClickPhase' = "enterTimer") =>
          /\ history' = PushEntry(history, hidx, ClickTask.url)
          /\ hidx' = Len(history')
          /\ Location' = ClickTask.url
     /\ (ClickTasks # {} /\ ev' = NoEvent /\ ~Unloads
           /\ ~(ClickPhase = "fetch" /\ ClickPhase' = "enterTimer")) =>
          UNCHANGED <<history, hidx>>
    ]_vars

\* Back from "/b" to "/a": the response has been spliced on the pop path
\* and the history still holds both entries, the first being current.
C22_Witness ==
  /\ PopTasks # {}
  /\ tasks[1].kind = "enterTimer"
  /\ doc.spliced /\ doc.title = "/a"
  /\ history = <<"/a", "/b">>
  /\ hidx = 1

\* ----------------------------------------------------------------- C23
\* C23 as stated: whenever no transition is in progress, the document
\* shows what was fetched for the URL in window.location (a page of that
\* URL, or the error body the server answered with).  Violated by a
\* history pop that arrives during a transition: the browser moves the
\* location, handlePopState returns at once, and the transition completes
\* with the content of the URL it was started for.
C23_AsStated ==
  (loaded /\ ~isTransitioning) => doc.title \in {Location, ErrorPage}

\* ----------------------------------------------------------------- C24
\* The click listeners on the header of a timeline item: the one of
\* initTimeline and those reinitializeScripts has added.
HeaderListeners == (IF tl.h1 THEN 1 ELSE 0) + tl.h2

\* C24 as stated: once a transition is over, every timeline header in the
\* document carries exactly one click listener.  Violated when the
\* fetched document has no main region: the headers are kept with the
\* listener they have and reinitializeScripts adds another.
C24_AsStated ==
  (loaded /\ ~isTransitioning /\ tl.items # {}) => HeaderListeners = 1

\* ----------------------------------------------------------------- C25
\* C25: at most one callback of requestAnimationFrame is scheduled for
\* animate at any time, whatever sequence of frames, reinit, resize,
\* respawn, visibility-change and pageshow events has run.
C25_OneCallback == ps.installed => Scheduled(ps.loop) <= 1

\* reinit has run while the loop was going and a resize timer was
\* pending: one callback is scheduled, the one animationId names.
C25_Witness ==
  /\ ev.type = "reinit"
  /\ ps.resizeTimeout
  /\ ps.loop.idLive
  /\ Scheduled(ps.loop) = 1

\* ----------------------------------------------------------------- C26
\* The particle background followed at the first star of each layer or
\* at the first element of another array.
LayerSpecInit ==
  /\ PageInit(StaticPage)
  /\ \E kind \in Kinds :
       \E q \in UNION {Created(kind, LargeViewport, slot) : slot \in Slots(kind)} :
         \E r \in Update(q, LargeViewport) :
           ps = ParticleInit(LargeViewport, q, r)
  /\ sa = NoScroll
  /\ cg = NoCursor

LayerSpec == LayerSpecInit /\ [][ParticleNext]_vars

\* The length of the array that holds the particles of a kind.
ArrayLength(kind) ==
  CASE kind = "star" -> ps.counts.stars
    [] kind = "dust" -> ps.counts.dust
    [] kind = "nebula" -> ps.counts.nebulas
    [] OTHER -> ps.counts.clusters

\* C26: the arrays keep their configured lengths (500 stars, of which
\* 200 distant, 200 mid and 100 near, 8 nebulas, 4 clusters, 80 dust),
\* the particle followed stays at its index, a star with the layer
\* createStars gives that index, and a frame changes neither a length nor the index or
\* layer of a particle, also when it respawns the particle.
C26_FixedSizes ==
  /\ [](ps.installed =>
          /\ ps.counts = [stars |-> 500, nebulas |-> 8, clusters |-> 4, dust |-> 80]
          /\ distantStarCount = 200 /\ midStarCount = 200 /\ nearStarCount = 100
          /\ ps.p.slot < ArrayLength(ps.p.kind)
          /\ ps.p.layer = LayerOf(ps.p.kind, ps.p.slot))
  /\ [][ev'.type = "frame" =>
          /\ ps'.counts = ps.counts
          /\ ps'.p.kind = ps.p.kind /\ ps'.p.slot = ps.p.slot /\ ps'.p.layer = ps.p.layer
       ]_vars

\* A frame has run on a near star, generated for the larger canvas, after
\* the canvas has shrunk.
C26_Witness ==
  /\ ev.type = "frame"
  /\ ps.p.layer = "near"
  /\ ps.canvas = SmallViewport
  /\ ps.gen.stars = LargeViewport
  /\ ps.p.c < SmallViewport /\ ps.p.v = -1

\* ----------------------------------------------------------------- C27
\* C27: the document holds one shooting-stars container with 8 stars and
\* 8 style elements marked data-shooting-star, after init and after every
\* reinit.
C27_OneContainer ==
  ps.installed => ps.shooting = [containers |-> 1, stars |-> 8, styles |-> 8]

\* A page restored from the back/forward cache has run reinitialize after
\* a reinit call had already rebuilt the shooting stars.
C27_Witness ==
  /\ ev.type = "pageshowCached"
  /\ ps.shooting = ShootingStars
  /\ ~ps.resizeTimeout
  /\ thrown # {}

====
